---- MODULE Spec2Model ----
(***************************************************************************)
(* LawFinder statute XML parser (backend/src/parsers/xml_parser.py) and    *)
(* its entity model (backend/src/models/law.py).                           *)
(*                                                                         *)
(* Text is a sequence of one-character strings, so that concatenation,     *)
(* split and replace are computed character by character.  An XML element  *)
(* is a record of its attributes and of the children the parser looks at.  *)
(* A call either returns a value or raises; Ok/Err carry the outcome.      *)
(***************************************************************************)
EXTENDS Integers, Sequences, FiniteSets, TLC

VARIABLES op, arg, ret

vars == <<op, arg, ret>>

(***************************************************************************)
(* Bounds of the explored inputs.                                          *)
(***************************************************************************)
MaxSentences == 2
MaxItems == 2
MaxParagraphs == 2
MaxArticles == 2
MaxSections == 2

SeqsUpTo(S, n) == UNION {[1..k -> S] : k \in 0..n}

(***************************************************************************)
(* Python values.                                                          *)
(***************************************************************************)
\* dict.get / Element.get on a missing key, Element.find on a missing child
Absent == <<"#absent">>
\* Python None (Element.text of an element without text is None, never '')
NoneVal == <<"#None">>

\* TheOne({e : r \in {x}}) is e with r bound to the value of x, computed once
TheOne(S) == CHOOSE v \in S : TRUE

Ok(v) == [err |-> "none", val |-> v]
Err(e) == [err |-> e, val |-> <<>>]
IsOk(r) == r.err = "none"

\* attrib.get(key, default)
AttrGet(a, default) == IF a = Absent THEN default ELSE a

\* truthiness of an Optional[str]
Truthy(t) == t # NoneVal /\ t # <<>>

Digits == {"0", "1", "2", "3", "4", "5", "6", "7", "8", "9"}

DigitVal(c) ==
    CASE c = "0" -> 0 [] c = "1" -> 1 [] c = "2" -> 2 [] c = "3" -> 3
      [] c = "4" -> 4 [] c = "5" -> 5 [] c = "6" -> 6 [] c = "7" -> 7
      [] c = "8" -> 8 [] c = "9" -> 9

DigitChar(d) == <<"0", "1", "2", "3", "4", "5", "6", "7", "8", "9">>[d + 1]

\* int(s) accepts: decimal digits, single underscores between digits.
\* (Tokens of the model use the alphabet Digits \cup {"_", "x"}.)
IntLiteralOk(s) ==
    /\ Len(s) > 0
    /\ s[1] \in Digits
    /\ s[Len(s)] \in Digits
    /\ \A i \in 1..Len(s) : s[i] \in Digits \cup {"_"}
    /\ \A i \in 1..(Len(s) - 1) : ~(s[i] = "_" /\ s[i + 1] = "_")

RECURSIVE IntValue(_, _)
IntValue(s, acc) ==
    IF s = <<>> THEN acc
    ELSE IF Head(s) = "_" THEN IntValue(Tail(s), acc)
    ELSE IntValue(Tail(s), 10 * acc + DigitVal(Head(s)))

\* int(s): Ok(n) or ValueError
PyInt(s) == IF IntLiteralOk(s) THEN Ok(IntValue(s, 0)) ELSE Err("ValueError")

\* str(n), n >= 0
RECURSIVE PyStr(_)
PyStr(n) == IF n < 10 THEN <<DigitChar(n)>>
            ELSE PyStr(n \div 10) \o <<DigitChar(n % 10)>>

\* s.split(sep)[0]: the prefix before the first sep (all of s when there is none)
RECURSIVE SplitFirst(_, _)
SplitFirst(s, sep) ==
    IF s = <<>> \/ Head(s) = sep THEN <<>>
    ELSE <<Head(s)>> \o SplitFirst(Tail(s), sep)

Contains(s, c) == \E i \in 1..Len(s) : s[i] = c

\* s.replace(' ', '_')
ReplaceSpace(s) == [i \in 1..Len(s) |-> IF s[i] = " " THEN "_" ELSE s[i]]

\* ' '.join(s.text for s in sentences if s.text)
RECURSIVE JoinTruthy(_)
JoinTruthy(texts) ==
    IF texts = <<>> THEN <<>>
    ELSE LET rest == JoinTruthy(Tail(texts))
         IN  IF ~Truthy(Head(texts)) THEN rest
             ELSE IF rest = <<>> THEN Head(texts)
             ELSE Head(texts) \o <<" ">> \o rest

\* content of a ParagraphSentence / ItemSentence container (Absent when missing)
SentenceContent(container) ==
    IF container = Absent THEN <<>> ELSE JoinTruthy(container)

(***************************************************************************)
(* _parse_item                                                             *)
(***************************************************************************)
\* Item(...): item_title is a required str, None fails validation
ItemModel(item) ==
    IF item.item_title = NoneVal THEN Err("ValidationError") ELSE Ok(item)

ItemTitleOf(item_elem, item_num) ==
    IF item_elem.ItemTitle # Absent THEN item_elem.ItemTitle ELSE PyStr(item_num)

parse_item(item_elem, paragraph_id) ==
    LET n == PyInt(AttrGet(item_elem.Num, <<"1">>))
    IN  IF ~IsOk(n) THEN n
        ELSE ItemModel([item_id |-> paragraph_id \o <<"_", "i", "t", "e", "m">> \o PyStr(n.val),
                        paragraph_id |-> paragraph_id,
                        item_num |-> n.val,
                        item_title |-> ItemTitleOf(item_elem, n.val),
                        content |-> SentenceContent(item_elem.ItemSentence)])

(***************************************************************************)
(* _parse_paragraph                                                        *)
(***************************************************************************)
\* for item_elem in para_elem.findall('Item'): ... items.append(item)
RECURSIVE ItemLoop(_, _, _)
ItemLoop(item_elems, paragraph_id, items) ==
    IF item_elems = <<>> THEN Ok(items)
    ELSE TheOne({IF ~IsOk(r) THEN r
                 ELSE ItemLoop(Tail(item_elems), paragraph_id, Append(items, r.val)) :
                 r \in {parse_item(Head(item_elems), paragraph_id)}})

\* variant: the owner taken to be the paragraph's own identifier
ParagraphOwner_Self(article_id) == article_id \o <<"_", "p", "a", "r", "a">>

\* Paragraph(article_id=article_id, ...)
ParagraphOwner(article_id) == article_id

parse_paragraph(para_elem, article_id) ==
    LET n == PyInt(AttrGet(para_elem.Num, <<"1">>))
    IN  IF ~IsOk(n) THEN n
        ELSE LET paragraph_id == article_id \o <<"_", "p", "a", "r", "a">> \o PyStr(n.val)
             IN  TheOne({IF ~IsOk(items) THEN items
                         ELSE Ok([paragraph_id |-> paragraph_id,
                                  article_id |-> ParagraphOwner(article_id),
                                  paragraph_num |-> n.val,
                                  content |-> SentenceContent(para_elem.ParagraphSentence),
                                  items |-> items.val]) :
                         items \in {ItemLoop(para_elem.Items, paragraph_id, <<>>)}})

(***************************************************************************)
(* _parse_article                                                          *)
(***************************************************************************)
\* variant: every paragraph's content appended
ArticleContent_Concat(content, paragraph) == content \o paragraph.content

\* if not article.content: article.content = paragraph.content
ArticleContent(content, paragraph) ==
    IF content = <<>> THEN paragraph.content ELSE content

\* for para_elem in ...findall('Paragraph'): append, set content
\* (the same loop body at lines 118-123 and 156-161)
RECURSIVE ParagraphLoop(_, _, _)
ParagraphLoop(para_elems, article_id, article) ==
    IF para_elems = <<>> THEN Ok(article)
    ELSE TheOne({IF ~IsOk(r) THEN r
                 ELSE ParagraphLoop(Tail(para_elems), article_id,
                        [article EXCEPT !.paragraphs = Append(@, r.val),
                                        !.content = ArticleContent(@, r.val)]) :
                 r \in {parse_paragraph(Head(para_elems), article_id)}})

\* article_num from the raw token: the part before '_' when there is one
ArticleNum(article_num_str) ==
    IF Contains(article_num_str, "_")
    THEN PyInt(SplitFirst(article_num_str, "_"))
    ELSE PyInt(article_num_str)

\* variant: the identifier built from the parsed number, not from the raw token
ArticleId_FromNumber(law_id, article_num_str, article_num) ==
    law_id \o <<"_", "a", "r", "t">> \o PyStr(article_num)

\* article_id = f"{law_id}_art{article_num_str}"
ArticleId(law_id, article_num_str, article_num) ==
    law_id \o <<"_", "a", "r", "t">> \o article_num_str

ChildText(child) == IF child # Absent THEN child ELSE NoneVal

parse_article(article_elem, law_id) ==
    LET article_num_str == AttrGet(article_elem.Num, <<"0">>)
        n == ArticleNum(article_num_str)
    IN  IF ~IsOk(n) THEN n
        ELSE LET article_id == ArticleId(law_id, article_num_str, n.val)
             IN  ParagraphLoop(article_elem.Paragraphs, article_id,
                    [article_id |-> article_id,
                     law_id |-> law_id,
                     article_num |-> n.val,
                     article_title |-> ChildText(article_elem.ArticleTitle),
                     article_caption |-> ChildText(article_elem.ArticleCaption),
                     content |-> <<>>,
                     paragraphs |-> <<>>])

(***************************************************************************)
(* _parse_articles_from_element                                            *)
(***************************************************************************)
\* for article_elem in element.findall('Article'): ... articles.append(article)
RECURSIVE ArticleLoop(_, _, _)
ArticleLoop(article_elems, law_id, articles) ==
    IF article_elems = <<>> THEN Ok(articles)
    ELSE TheOne({IF ~IsOk(r) THEN r
                 ELSE ArticleLoop(Tail(article_elems), law_id, Append(articles, r.val)) :
                 r \in {parse_article(Head(article_elems), law_id)}})

\* variant: the "no Article element" half of the condition dropped
SynthesizeGuard_AnyParagraphs(element) == element.Paragraphs # <<>>

\* if paragraphs and not element.findall('Article'):
SynthesizeGuard(element) == element.Paragraphs # <<>> /\ element.Articles = <<>>

MainArticleId(law_id) == law_id \o <<"_", "m", "a", "i", "n">>

parse_articles_from_element(element, law_id) ==
    TheOne({
        IF ~IsOk(articles) THEN articles
        ELSE IF SynthesizeGuard(element)
        THEN LET article_id == MainArticleId(law_id)
             IN  TheOne({IF ~IsOk(article) THEN article
                         ELSE Ok(Append(articles.val, article.val)) :
                         article \in {ParagraphLoop(element.Paragraphs, article_id,
                                        [article_id |-> article_id,
                                         law_id |-> law_id,
                                         article_num |-> 0,
                                         article_title |-> NoneVal,
                                         article_caption |-> NoneVal,
                                         content |-> <<>>,
                                         paragraphs |-> <<>>])}})
        ELSE articles :
        articles \in {ArticleLoop(element.Articles, law_id, <<>>)}})

(***************************************************************************)
(* parse_articles                                                          *)
(***************************************************************************)
\* element.findall(tag): the direct children with that tag, in document order
FindAll(children, tag) == SelectSeq(children, LAMBDA c : c.tag = tag)

\* variant: the sections taken as they come in the body
SectionsVisited_InBodyOrder(law_body) ==
    SelectSeq(law_body.Children, LAMBDA c : c.tag \in {"MainProvision", "Chapter"})

\* law_body.find('MainProvision'): the first one, as a list of zero or one
\* followed by law_body.findall('Chapter')
SectionsVisited(law_body) ==
    LET mains == FindAll(law_body.Children, "MainProvision")
    IN  (IF mains = <<>> THEN <<>> ELSE <<Head(mains)>>)
        \o FindAll(law_body.Children, "Chapter")

\* articles.extend(self._parse_articles_from_element(section, law_id))
RECURSIVE SectionLoop(_, _, _)
SectionLoop(sections, law_id, articles) ==
    IF sections = <<>> THEN Ok(articles)
    ELSE TheOne({IF ~IsOk(r) THEN r
                 ELSE SectionLoop(Tail(sections), law_id, articles \o r.val) :
                 r \in {parse_articles_from_element(Head(sections), law_id)}})

\* root.find('LawBody') is None when the body is missing: None.find raises
parse_articles(doc, law_id) ==
    IF doc.LawBody = <<>> THEN Err("AttributeError")
    ELSE SectionLoop(SectionsVisited(doc.LawBody[1]), law_id, <<>>)

(***************************************************************************)
(* parse_suppl_provisions, _parse_suppl_provision                          *)
(***************************************************************************)
\* variant: the amending-law number appended without the replacement
SupplId_NoReplace(law_id, suppl_type, amend_law_num) ==
    LET base == law_id \o <<"_", "s", "u", "p", "p", "l", "_">> \o suppl_type
    IN  IF amend_law_num # Absent /\ amend_law_num # <<>>
        THEN base \o <<"_">> \o amend_law_num
        ELSE base

\* suppl_provision_id = f"{law_id}_suppl_{suppl_type}" [+ "_" + replaced number]
SupplId(law_id, suppl_type, amend_law_num) ==
    LET base == law_id \o <<"_", "s", "u", "p", "p", "l", "_">> \o suppl_type
    IN  IF amend_law_num # Absent /\ amend_law_num # <<>>
        THEN base \o <<"_">> \o ReplaceSpace(amend_law_num)
        ELSE base

\* for para_elem in suppl_elem.findall('Paragraph'): paragraphs.append(...)
RECURSIVE SupplParagraphLoop(_, _, _)
SupplParagraphLoop(para_elems, suppl_provision_id, paragraphs) ==
    IF para_elems = <<>> THEN Ok(paragraphs)
    ELSE TheOne({IF ~IsOk(r) THEN r
                 ELSE SupplParagraphLoop(Tail(para_elems), suppl_provision_id,
                                         Append(paragraphs, r.val)) :
                 r \in {parse_paragraph(Head(para_elems), suppl_provision_id)}})

parse_suppl_provision(suppl_elem, law_id) ==
    LET amend_law_num == suppl_elem.AmendLawNum
        suppl_type == AttrGet(suppl_elem.Type, <<"N", "e", "w">>)
        suppl_provision_id == SupplId(law_id, suppl_type, amend_law_num)
    IN  TheOne({
          IF ~IsOk(articles) THEN articles
          ELSE TheOne({
                 IF ~IsOk(paragraphs) THEN paragraphs
                 ELSE Ok([suppl_provision_id |-> suppl_provision_id,
                          law_id |-> law_id,
                          amend_law_num |-> IF amend_law_num = Absent
                                            THEN NoneVal ELSE amend_law_num,
                          suppl_provision_type |-> suppl_type,
                          extract |-> (AttrGet(suppl_elem.Extract,
                                               <<"f", "a", "l", "s", "e">>)
                                       = <<"t", "r", "u", "e">>),
                          articles |-> articles.val,
                          paragraphs |-> paragraphs.val]) :
                 paragraphs \in {SupplParagraphLoop(suppl_elem.Paragraphs,
                                                    suppl_provision_id, <<>>)}}) :
          articles \in {ArticleLoop(suppl_elem.Articles, law_id, <<>>)}})

RECURSIVE SupplLoop(_, _, _)
SupplLoop(suppl_elems, law_id, suppl_provisions) ==
    IF suppl_elems = <<>> THEN Ok(suppl_provisions)
    ELSE TheOne({IF ~IsOk(r) THEN r
                 ELSE SupplLoop(Tail(suppl_elems), law_id, Append(suppl_provisions, r.val)) :
                 r \in {parse_suppl_provision(Head(suppl_elems), law_id)}})

parse_suppl_provisions(doc, law_id) ==
    IF doc.LawBody = <<>> THEN Err("AttributeError")
    ELSE SupplLoop(FindAll(doc.LawBody[1].Children, "SupplProvision"), law_id, <<>>)

(***************************************************************************)
(* _convert_to_gregorian_date                                              *)
(***************************************************************************)
\* era_start_years.get(era, 1868)
EraStartYear(era) ==
    CASE era = "Meiji" -> 1868
      [] era = "Taisho" -> 1912
      [] era = "Showa" -> 1926
      [] era = "Heisei" -> 1989
      [] era = "Reiwa" -> 2019
      [] OTHER -> 1868

\* variant: the "- 1" forgotten
GregorianYear_OffByOne(start_year, year) == start_year + year

\* gregorian_year = start_year + year - 1
GregorianYear(start_year, year) == start_year + year - 1

IsLeap(y) == y % 4 = 0 /\ (y % 100 # 0 \/ y % 400 = 0)

DaysInMonth(y, m) ==
    IF m = 2 THEN (IF IsLeap(y) THEN 29 ELSE 28)
    ELSE IF m \in {4, 6, 9, 11} THEN 30 ELSE 31

\* datetime.date(year, month, day): ValueError outside MINYEAR..MAXYEAR, 1..12,
\* 1..days in month
PyDate(y, m, d) ==
    IF /\ y \in 1..9999
       /\ m \in 1..12
       /\ d \in 1..DaysInMonth(y, m)
    THEN Ok([year |-> y, month |-> m, day |-> d])
    ELSE Err("ValueError")

convert_to_gregorian_date(era, year, month, day) ==
    PyDate(GregorianYear(EraStartYear(era), year), month, day)

(***************************************************************************)
(* parse_law_file                                                          *)
(***************************************************************************)
\* self.law_type_mapping.get(code, LawType.OTHER)
LawTypeOf(code) ==
    IF code \in {"Act", "CabinetOrder", "Ordinance", "ImperialOrdinance", "Rule"}
    THEN code ELSE "Other"

\* self.era_mapping.get(era, era); "ja:" stands for the name in Japanese script
EraName(era) ==
    CASE era = "Meiji" -> "ja:Meiji"
      [] era = "Taisho" -> "ja:Taisho"
      [] era = "Showa" -> "ja:Showa"
      [] era = "Heisei" -> "ja:Heisei"
      [] era = "Reiwa" -> "ja:Reiwa"
      [] OTHER -> era

\* law_attrs.get(key, n) followed by int(): int(n) = n for the integer default
IntAttr(a, default) == IF a = Absent THEN Ok(default) ELSE PyInt(a)

\* Law(...): law_num and law_title are required str, None fails validation
LawModel(law) ==
    IF law.law_num = NoneVal \/ law.law_title = NoneVal
    THEN Err("ValidationError") ELSE Ok(law)

\* variant: the default for a missing title element forgotten
LawTitleOf_NoDefault(title_elems) ==
    IF title_elems # <<>> THEN title_elems[1].text ELSE NoneVal

\* law_title_elem.text if law_title_elem is not None else ''
LawTitleOf(title_elems) ==
    IF title_elems # <<>> THEN title_elems[1].text ELSE <<>>

parse_law_file(doc, stem) ==
    LET era == IF doc.Era = "#absent" THEN "" ELSE doc.Era
        year == IntAttr(doc.Year, 0)
        num == IntAttr(doc.Num, 0)
        month == IntAttr(doc.PromulgateMonth, 1)
        day == IntAttr(doc.PromulgateDay, 1)
    IN  IF ~IsOk(year) THEN year
        ELSE IF ~IsOk(num) THEN num
        ELSE IF ~IsOk(month) THEN month
        ELSE IF ~IsOk(day) THEN day
        ELSE LET promulgate_date ==
                     convert_to_gregorian_date(era, year.val, month.val, day.val)
             IN  IF ~IsOk(promulgate_date) THEN promulgate_date
                 ELSE IF doc.LawBody = <<>> THEN Err("AttributeError")
                 ELSE LET title_elems == doc.LawBody[1].LawTitle
                      IN  LawModel(
                            [law_id |-> SplitFirst(stem, "_"),
                             law_type |-> LawTypeOf(doc.LawType),
                             law_num |-> IF doc.LawNum # Absent THEN doc.LawNum ELSE <<>>,
                             law_title |-> LawTitleOf(title_elems),
                             law_title_kana |-> IF title_elems # <<>>
                                                THEN AttrGet(title_elems[1].Kana, <<>>)
                                                ELSE NoneVal,
                             abbreviation |-> IF title_elems # <<>>
                                              THEN AttrGet(title_elems[1].Abbrev, <<>>)
                                              ELSE NoneVal,
                             era |-> EraName(era),
                             year |-> year.val,
                             num |-> num.val,
                             promulgate_date |-> promulgate_date.val])

(***************************************************************************)
(* Input documents.                                                        *)
(***************************************************************************)
LawIds == {<<"L", "1">>}

SentenceTexts == {NoneVal, <<"A">>, <<"B">>}
Containers == {Absent} \cup SeqsUpTo(SentenceTexts, MaxSentences)

ItemNumTokens == {Absent, <<"3">>, <<"0", "3">>, <<"1", "2">>, <<"x">>, <<>>}
ItemTitles == {Absent, NoneVal, <<"i">>}
ItemElems == [Num : ItemNumTokens, ItemTitle : ItemTitles, ItemSentence : Containers]

I_plain == [Num |-> <<"3">>, ItemTitle |-> Absent, ItemSentence |-> <<<<"A">>>>]
I_titled == [Num |-> Absent, ItemTitle |-> <<"i">>, ItemSentence |-> Absent]
I_notext == [Num |-> <<"2">>, ItemTitle |-> NoneVal, ItemSentence |-> <<<<"B">>>>]
I_bad == [Num |-> <<"x">>, ItemTitle |-> Absent, ItemSentence |-> Absent]
ItemCat == {I_plain, I_titled, I_notext, I_bad}

ParaNumTokens == {Absent, <<"1">>, <<"2">>, <<"1", "_", "0">>, <<"x">>}
ParaContainers == {Absent, <<>>, <<<<"A">>>>, <<<<"A">>, <<"B">>>>, <<NoneVal, <<"B">>>>}
ParagraphElems == [Num : ParaNumTokens, ParagraphSentence : ParaContainers,
                   Items : SeqsUpTo(ItemCat, MaxItems)]

P1 == [Num |-> <<"1">>, ParagraphSentence |-> <<<<"A">>>>, Items |-> <<>>]
P2 == [Num |-> <<"2">>, ParagraphSentence |-> <<<<"B">>, <<"A">>>>, Items |-> <<I_plain>>]
P_empty == [Num |-> Absent, ParagraphSentence |-> Absent, Items |-> <<I_titled>>]
P_bad == [Num |-> <<"x">>, ParagraphSentence |-> <<<<"A">>>>, Items |-> <<>>]
P_notext == [Num |-> <<"3">>, ParagraphSentence |-> <<<<"B">>>>, Items |-> <<I_notext>>]
ParaCat == {P1, P2, P_empty, P_bad, P_notext}
ParaCatS == {P1, P2, P_bad}

ArticleNumTokens == {Absent, <<"1">>, <<"2", "_", "2">>, <<"0", "1">>, <<"x">>,
                     <<"_", "2">>, <<"2", "_">>, <<"1", "_", "x">>}
ArticleElems == [Num : ArticleNumTokens,
                 ArticleTitle : {Absent, NoneVal, <<"t">>},
                 ArticleCaption : {Absent, <<"c">>},
                 Paragraphs : SeqsUpTo(ParaCat, MaxParagraphs)]

Art(num, paras) == [Num |-> num, ArticleTitle |-> Absent, ArticleCaption |-> Absent,
                    Paragraphs |-> paras]
A1 == Art(<<"1">>, <<P1, P2>>)
A2 == Art(<<"2", "_", "2">>, <<P2>>)
A3 == Art(<<"3">>, <<>>)
A_bad == Art(<<"x">>, <<P1>>)
ArtCat == {A1, A2, A3, A_bad}

Section(tag, arts, paras) ==
    [tag |-> tag, Type |-> Absent, AmendLawNum |-> Absent, Extract |-> Absent,
     Articles |-> arts, Paragraphs |-> paras]
SectionElems == {Section("Chapter", a, p) :
                    a \in SeqsUpTo(ArtCat, MaxArticles),
                    p \in SeqsUpTo(ParaCatS, MaxParagraphs)}

SecCat == {Section(t, c[1], c[2]) :
              t \in {"MainProvision", "Chapter"},
              c \in {<<<<A1, A2>>, <<>>>>, <<<<>>, <<P1, P2>>>>, <<<<A2>>, <<P1>>>>,
                     <<<<A_bad, A1>>, <<>>>>, <<<<A3>>, <<>>>>}}

AmendLawNums == {Absent, <<>>, <<"X", " ", "Y">>, <<"X", "\t", "Y">>,
                 <<" ", "X", " ", " ", "Y">>}
SupplElems == {[tag |-> "SupplProvision", Type |-> t, AmendLawNum |-> n,
                Extract |-> e, Articles |-> a, Paragraphs |-> p] :
                  t \in {Absent, <<"A", "m", "e", "n", "d">>},
                  n \in AmendLawNums,
                  e \in {Absent, <<"t", "r", "u", "e">>},
                  a \in SeqsUpTo({A1, A_bad}, MaxArticles),
                  p \in SeqsUpTo(ParaCatS, MaxParagraphs)}

Suppl(t, n, arts, paras) ==
    [tag |-> "SupplProvision", Type |-> t, AmendLawNum |-> n, Extract |-> Absent,
     Articles |-> arts, Paragraphs |-> paras]
SupplCat == {Suppl(Absent, Absent, <<A1>>, <<P1>>),
             Suppl(<<"A", "m", "e", "n", "d">>, <<"X", " ", "Y">>, <<>>, <<P1, P2>>),
             Suppl(Absent, <<"X">>, <<A_bad>>, <<>>),
             Section("Chapter", <<A2>>, <<>>)}

TitleElem == [text |-> <<"T">>, Kana |-> Absent, Abbrev |-> Absent]

Doc(bodies) ==
    [Era |-> "Reiwa", Year |-> <<"1">>, LawType |-> "Act", Num |-> <<"1">>,
     PromulgateMonth |-> <<"5">>, PromulgateDay |-> <<"1">>,
     LawNum |-> <<"N">>, LawBody |-> bodies]
Body(children) == [LawTitle |-> <<TitleElem>>, Children |-> children]

ArticleDocs == {Doc(<<>>)} \cup {Doc(<<Body(c)>>) : c \in SeqsUpTo(SecCat, MaxSections)}
SupplDocs == {Doc(<<>>)} \cup {Doc(<<Body(c)>>) : c \in SeqsUpTo(SupplCat, MaxSections)}

TitleElems == {<<>>} \cup
    {<<[text |-> t, Kana |-> k, Abbrev |-> Absent]>> :
        t \in {NoneVal, <<"T">>}, k \in {Absent, <<"k">>}}
LawDocs == [Era : {"#absent", "Reiwa", "Meiji", "Foo"},
            Year : {Absent, <<"1">>, <<"2">>, <<"x">>},
            LawType : {"Act", "Foo"},
            Num : {Absent, <<"7">>, <<"x">>},
            PromulgateMonth : {Absent, <<"2">>, <<"5">>, <<"1", "3">>},
            PromulgateDay : {Absent, <<"2", "9">>, <<"3", "0">>},
            LawNum : {Absent, NoneVal, <<"N">>},
            LawBody : {<<>>} \cup
                      {<<[LawTitle |-> t, Children |-> <<>>]>> : t \in TitleElems}]
Stems == {<<"L", "1">>, <<"L", "1", "_", "v">>}

Eras == {"", "Meiji", "Taisho", "Showa", "Heisei", "Reiwa", "Foo"}
EraYears == {-1868, -1867, 0, 1, 2, 12, 33, 8132, 8133}
Months == {0, 1, 2, 4, 5, 12, 13}
Days == {0, 1, 28, 29, 30, 31, 32}

(***************************************************************************)
(* One call of the parser: the operation, its arguments, its outcome.      *)
(***************************************************************************)
Init ==
    /\ op = "idle"
    /\ arg = <<>>
    /\ ret = Ok(<<>>)

ParseItem ==
    /\ op = "idle"
    /\ \E e \in ItemElems, pid \in {<<"L", "1", "_", "a", "r", "t", "1", "_", "p", "a", "r", "a", "1">>} :
          /\ op' = "_parse_item"
          /\ arg' = [elem |-> e, parent |-> pid]
          /\ ret' = parse_item(e, pid)

ParseParagraph ==
    /\ op = "idle"
    /\ \E e \in ParagraphElems, aid \in {<<"L", "1", "_", "a", "r", "t", "1">>} :
          /\ op' = "_parse_paragraph"
          /\ arg' = [elem |-> e, parent |-> aid]
          /\ ret' = parse_paragraph(e, aid)

ParseArticle ==
    /\ op = "idle"
    /\ \E e \in ArticleElems, law_id \in LawIds :
          /\ op' = "_parse_article"
          /\ arg' = [elem |-> e, law_id |-> law_id]
          /\ ret' = parse_article(e, law_id)

ParseArticlesFromElement ==
    /\ op = "idle"
    /\ \E e \in SectionElems, law_id \in LawIds :
          /\ op' = "_parse_articles_from_element"
          /\ arg' = [elem |-> e, law_id |-> law_id]
          /\ ret' = parse_articles_from_element(e, law_id)

ParseArticles ==
    /\ op = "idle"
    /\ \E d \in ArticleDocs, law_id \in LawIds :
          /\ op' = "parse_articles"
          /\ arg' = [doc |-> d, law_id |-> law_id]
          /\ ret' = parse_articles(d, law_id)

ParseSupplProvision ==
    /\ op = "idle"
    /\ \E e \in SupplElems, law_id \in LawIds :
          /\ op' = "_parse_suppl_provision"
          /\ arg' = [elem |-> e, law_id |-> law_id]
          /\ ret' = parse_suppl_provision(e, law_id)

ParseSupplProvisions ==
    /\ op = "idle"
    /\ \E d \in SupplDocs, law_id \in LawIds :
          /\ op' = "parse_suppl_provisions"
          /\ arg' = [doc |-> d, law_id |-> law_id]
          /\ ret' = parse_suppl_provisions(d, law_id)

ConvertToGregorianDate ==
    /\ op = "idle"
    /\ \E era \in Eras, y \in EraYears, m \in Months, d \in Days :
          /\ op' = "_convert_to_gregorian_date"
          /\ arg' = [era |-> era, year |-> y, month |-> m, day |-> d]
          /\ ret' = convert_to_gregorian_date(era, y, m, d)

ParseLawFile ==
    /\ op = "idle"
    /\ \E d \in LawDocs, stem \in Stems :
          /\ op' = "parse_law_file"
          /\ arg' = [doc |-> d, stem |-> stem]
          /\ ret' = parse_law_file(d, stem)

Next ==
    \/ ParseItem
    \/ ParseParagraph
    \/ ParseArticle
    \/ ParseArticlesFromElement
    \/ ParseArticles
    \/ ParseSupplProvision
    \/ ParseSupplProvisions
    \/ ConvertToGregorianDate
    \/ ParseLawFile

Spec == Init /\ [][Next]_vars

(***************************************************************************)
(* Vocabulary of the properties.                                           *)
(***************************************************************************)
Returned(name) == op = name /\ IsOk(ret)

\* a numbering token of the form "n" or "n_b", n and b written in decimal
OrdinalRange == 0..20
IsOrdinalToken(t) ==
    \E n \in OrdinalRange :
        \/ t = PyStr(n)
        \/ \E b \in OrdinalRange : t = PyStr(n) \o <<"_">> \o PyStr(b)

\* the Article, Paragraph and Item tokens of an article element are well formed
ParagraphTokensOk(p) ==
    /\ \E n \in OrdinalRange : AttrGet(p.Num, <<"1">>) = PyStr(n)
    /\ \A k \in DOMAIN p.Items :
          \E n \in OrdinalRange : AttrGet(p.Items[k].Num, <<"1">>) = PyStr(n)
ArticleTokensOk(a) ==
    /\ IsOrdinalToken(AttrGet(a.Num, <<"0">>))
    /\ \A j \in DOMAIN a.Paragraphs : ParagraphTokensOk(a.Paragraphs[j])

BodyOf(d) == d.LawBody[1]
SectionTags == {"MainProvision", "Chapter"}

(***************************************************************************)
(* C1                                                                      *)
(***************************************************************************)
\* C1: a numbering token that is not of the integer / integer_branch form
\* fails only its own element: parse_articles and parse_suppl_provisions do
\* not abort, and parse_articles still returns an Article for every Article
\* element of a visited section whose tokens are well formed.
C1_TokenFailureScoped ==
    /\ (op \in {"parse_articles", "parse_suppl_provisions"} /\ arg.doc.LawBody # <<>>)
          => IsOk(ret)
    /\ Returned("parse_articles") =>
          \A i \in DOMAIN BodyOf(arg.doc).Children :
             LET sec == BodyOf(arg.doc).Children[i]
             IN  sec.tag \in SectionTags =>
                    \A j \in DOMAIN sec.Articles :
                       ArticleTokensOk(sec.Articles[j]) =>
                          \E k \in DOMAIN ret.val :
                             ret.val[k].article_id =
                                arg.law_id \o <<"_", "a", "r", "t">> \o sec.Articles[j].Num

(***************************************************************************)
(* C2                                                                      *)
(***************************************************************************)
HasBody(d) == d.LawBody # <<>>
HasTitle(d) == HasBody(d) /\ BodyOf(d).LawTitle # <<>>

\* C2 as stated: parse_law_file returns a Law only when the document has
\* both the body container and the title element.
C2_TitleRequired ==
    Returned("parse_law_file") => HasBody(arg.doc) /\ HasTitle(arg.doc)

\* metadata for which nothing but the body and the title can fail
GoodMetadata(d) ==
    /\ d.Year \in {Absent, <<"1">>, <<"2">>}
    /\ d.Num \in {Absent, <<"7">>}
    /\ d.PromulgateMonth \in {Absent, <<"5">>}
    /\ d.PromulgateDay \in {Absent, <<"2", "9">>, <<"3", "0">>}
    /\ d.LawNum # NoneVal

\* C2 (amended): parse_law_file raises whenever LawBody is missing.  A missing
\* LawTitle is no failure: with the body present and the other metadata valid
\* a Law is returned, with law_title '' and no reading or abbreviation.  A
\* LawTitle element without text does make the call raise.
C2_BodyRequiredTitleDefaults ==
    op = "parse_law_file" =>
       /\ ~HasBody(arg.doc) => ~IsOk(ret)
       /\ (HasBody(arg.doc) /\ ~HasTitle(arg.doc) /\ GoodMetadata(arg.doc)) =>
             /\ IsOk(ret)
             /\ ret.val.law_title = <<>>
             /\ ret.val.law_title_kana = NoneVal
             /\ ret.val.abbreviation = NoneVal
       /\ (HasTitle(arg.doc) /\ BodyOf(arg.doc).LawTitle[1].text = NoneVal) => ~IsOk(ret)
       /\ (IsOk(ret) /\ HasTitle(arg.doc)) =>
             ret.val.law_title = BodyOf(arg.doc).LawTitle[1].text

C2_Witness ==
    /\ Returned("parse_law_file")
    /\ HasBody(arg.doc)
    /\ ~HasTitle(arg.doc)
    /\ ret.val.law_title = <<>>

(***************************************************************************)
(* C3                                                                      *)
(***************************************************************************)
IsSynthesized(article, law_id) == article.article_id = law_id \o <<"_", "m", "a", "i", "n">>
SynthesizedIn(articles, law_id) ==
    {k \in DOMAIN articles : IsSynthesized(articles[k], law_id)}

\* the synthesized article holds exactly the direct paragraphs, in source order
HoldsParagraphsOf(article, para_elems) ==
    /\ article.article_num = 0
    /\ Len(article.paragraphs) = Len(para_elems)
    /\ \A k \in DOMAIN para_elems :
          article.paragraphs[k] = parse_paragraph(para_elems[k], article.article_id).val

\* C3 as stated: whenever a subtree has direct Paragraph elements, whatever
\* else it contains, the returned list has exactly one synthesized Article
\* (article_num 0, id law_id_main) holding those paragraphs in source order.
C3_SynthesizedWheneverParagraphs ==
    (Returned("_parse_articles_from_element") /\ arg.elem.Paragraphs # <<>>) =>
       /\ Cardinality(SynthesizedIn(ret.val, arg.law_id)) = 1
       /\ \A k \in SynthesizedIn(ret.val, arg.law_id) :
             HoldsParagraphsOf(ret.val[k], arg.elem.Paragraphs)

OnlyParagraphs(sec) == sec.Paragraphs # <<>> /\ sec.Articles = <<>>

RECURSIVE CountOnlyParagraphs(_)
CountOnlyParagraphs(sections) ==
    IF sections = <<>> THEN 0
    ELSE (IF OnlyParagraphs(Head(sections)) THEN 1 ELSE 0)
         + CountOnlyParagraphs(Tail(sections))

\* C3 (amended): whenever the call returns, a subtree with direct Paragraph
\* elements and no direct Article element yields exactly one synthesized
\* Article (article_num 0, id law_id_main), last in the subtree's list,
\* holding all those paragraphs in source order; a subtree that also has
\* Article elements yields none and its direct paragraphs are not returned.
\* parse_articles returns one synthesized Article per visited subtree of the
\* first kind, all with the same id.
C3_SynthesizedOnlyWithoutArticles ==
    /\ Returned("_parse_articles_from_element") =>
          IF OnlyParagraphs(arg.elem)
          THEN /\ SynthesizedIn(ret.val, arg.law_id) = {Len(ret.val)}
               /\ Len(ret.val) = 1
               /\ HoldsParagraphsOf(ret.val[1], arg.elem.Paragraphs)
          ELSE /\ SynthesizedIn(ret.val, arg.law_id) = {}
               /\ Len(ret.val) = Len(arg.elem.Articles)
    /\ Returned("parse_articles") =>
          Cardinality(SynthesizedIn(ret.val, arg.law_id))
             = CountOnlyParagraphs(SectionsVisited(BodyOf(arg.doc)))

C3_Witness ==
    /\ Returned("_parse_articles_from_element")
    /\ arg.elem.Articles = <<>>
    /\ Len(arg.elem.Paragraphs) >= 2
    /\ Len(ret.val) = 1
    /\ Len(ret.val[1].paragraphs) = Len(arg.elem.Paragraphs)
    /\ ret.val[1].paragraphs[1].paragraph_id # ret.val[1].paragraphs[2].paragraph_id

(***************************************************************************)
(* C4                                                                      *)
(***************************************************************************)
\* the identifiers of the Article elements of a list of sections, in order
RECURSIVE ArticleIdsOf(_, _)
ArticleIdsOf(sections, law_id) ==
    IF sections = <<>> THEN <<>>
    ELSE [j \in DOMAIN Head(sections).Articles |->
             law_id \o <<"_", "a", "r", "t">> \o AttrGet(Head(sections).Articles[j].Num, <<"0">>)]
         \o ArticleIdsOf(Tail(sections), law_id)

\* the identifiers of the returned articles that come from Article elements
ReturnedIds(articles, law_id) ==
    LET real == SelectSeq(articles, LAMBDA a : ~IsSynthesized(a, law_id))
    IN  [k \in DOMAIN real |-> real[k].article_id]

DocumentOrder(body) == SelectSeq(body.Children, LAMBDA c : c.tag \in SectionTags)
MainsOf(body) == SelectSeq(body.Children, LAMBDA c : c.tag = "MainProvision")
ChaptersOf(body) == SelectSeq(body.Children, LAMBDA c : c.tag = "Chapter")

\* C4 as stated: for every arrangement of main-provision and chapter sections,
\* the returned articles are the Article elements of those sections in
\* document order, none reordered or removed.
C4_DocumentOrder ==
    Returned("parse_articles") =>
       ReturnedIds(ret.val, arg.law_id)
          = ArticleIdsOf(DocumentOrder(BodyOf(arg.doc)), arg.law_id)

\* C4 (amended): whenever parse_articles returns, the returned articles are
\* those of the first main-provision section, in source order, followed by
\* those of every chapter in document order, each chapter's articles in source
\* order; a chapter placed before the main provision still comes after it, and
\* a second main-provision section is not visited.  This is document order
\* exactly when there is at most one main provision and it precedes every
\* chapter.
C4_MainThenChapters ==
    Returned("parse_articles") =>
       LET body == BodyOf(arg.doc)
           first == IF MainsOf(body) = <<>> THEN <<>> ELSE <<MainsOf(body)[1]>>
       IN  /\ ReturnedIds(ret.val, arg.law_id)
                = ArticleIdsOf(first, arg.law_id)
                  \o ArticleIdsOf(ChaptersOf(body), arg.law_id)
           /\ (Len(MainsOf(body)) <= 1
               /\ \A i, j \in DOMAIN body.Children :
                     (body.Children[i].tag = "Chapter"
                      /\ body.Children[j].tag = "MainProvision") => j < i)
                 => ReturnedIds(ret.val, arg.law_id)
                      = ArticleIdsOf(DocumentOrder(body), arg.law_id)

C4_Witness ==
    /\ Returned("parse_articles")
    /\ Len(BodyOf(arg.doc).Children) = 2
    /\ BodyOf(arg.doc).Children[1].tag = "Chapter"
    /\ BodyOf(arg.doc).Children[2].tag = "MainProvision"
    /\ Len(ret.val) >= 3
    /\ ret.val[1].article_id = arg.law_id \o <<"_", "a", "r", "t", "3">>
    /\ ret.val[2].article_id = arg.law_id \o <<"_", "a", "r", "t", "1">>

(***************************************************************************)
(* C5                                                                      *)
(***************************************************************************)
\* the identifiers below an article are built by concatenation down the tree
ItemIdsOk(item, paragraph) ==
    /\ item.paragraph_id = paragraph.paragraph_id
    /\ item.item_id = paragraph.paragraph_id \o <<"_", "i", "t", "e", "m">>
                         \o PyStr(item.item_num)
ParagraphIdsOk(paragraph, article) ==
    /\ paragraph.article_id = article.article_id
    /\ paragraph.paragraph_id = article.article_id \o <<"_", "p", "a", "r", "a">>
                                   \o PyStr(paragraph.paragraph_num)
    /\ \A k \in DOMAIN paragraph.items : ItemIdsOk(paragraph.items[k], paragraph)
ArticleIdsOk(article) ==
    \A j \in DOMAIN article.paragraphs : ParagraphIdsOk(article.paragraphs[j], article)

\* the number an element's token "n" stands for is the number it got
NumbersMatch(elems, built, numOf(_)) ==
    /\ Len(built) = Len(elems)
    /\ \A k \in DOMAIN elems :
          \A n \in OrdinalRange :
             AttrGet(elems[k].Num, <<"1">>) = PyStr(n) => numOf(built[k]) = n

\* C5: an Article built from raw token t ("n" or "n_b") has
\* article_id = law_id + "_art" + t and article_num = n; each of its
\* paragraphs has the article's id as article_id and
\* paragraph_id = article_id + "_para" + paragraph_num; each item of a
\* paragraph has the paragraph's id as paragraph_id and
\* item_id = paragraph_id + "_item" + item_num.
C5_IdentifiersByConcatenation ==
    /\ Returned("_parse_article") =>
          LET t == AttrGet(arg.elem.Num, <<"0">>)
          IN  /\ ret.val.article_id = arg.law_id \o <<"_", "a", "r", "t">> \o t
              /\ \A n \in OrdinalRange :
                    (\/ t = PyStr(n)
                     \/ \E b \in OrdinalRange : t = PyStr(n) \o <<"_">> \o PyStr(b))
                       => ret.val.article_num = n
              /\ t = <<"2", "_", "2">> =>
                    ret.val.article_id = <<"L", "1", "_", "a", "r", "t", "2", "_", "2">>
              /\ ArticleIdsOk(ret.val)
              /\ NumbersMatch(arg.elem.Paragraphs, ret.val.paragraphs,
                              LAMBDA p : p.paragraph_num)
              /\ \A j \in DOMAIN arg.elem.Paragraphs :
                    NumbersMatch(arg.elem.Paragraphs[j].Items, ret.val.paragraphs[j].items,
                                 LAMBDA i : i.item_num)
    /\ Returned("parse_articles") =>
          \A k \in DOMAIN ret.val :
             ~IsSynthesized(ret.val[k], arg.law_id) => ArticleIdsOk(ret.val[k])
    /\ Returned("_parse_suppl_provision") =>
          \A k \in DOMAIN ret.val.articles : ArticleIdsOk(ret.val.articles[k])

C5_Witness ==
    /\ Returned("_parse_article")
    /\ arg.elem.Num = <<"2", "_", "2">>
    /\ ret.val.article_num = 2
    /\ Len(ret.val.paragraphs) = 2
    /\ \E j \in DOMAIN ret.val.paragraphs :
          /\ ret.val.paragraphs[j].paragraph_id =
                <<"L", "1", "_", "a", "r", "t", "2", "_", "2", "_", "p", "a", "r", "a", "2">>
          /\ \E k \in DOMAIN ret.val.paragraphs[j].items :
                ret.val.paragraphs[j].items[k].item_id =
                   ret.val.paragraphs[j].paragraph_id \o <<"_", "i", "t", "e", "m", "3">>

(***************************************************************************)
(* C6                                                                      *)
(***************************************************************************)
Whitespace == {" ", "\t"}
SupplPrefix(law_id, elem) ==
    law_id \o <<"_", "s", "u", "p", "p", "l", "_">> \o AttrGet(elem.Type, <<"N", "e", "w">>)

\* C6 as stated: the identifier is law_id + "_suppl_" + type, plus "_" and the
\* amending-law number with every whitespace character replaced by "_", so
\* that no whitespace of the number is left in the identifier.
C6_NoWhitespaceLeft ==
    Returned("_parse_suppl_provision") =>
       \A i \in DOMAIN ret.val.suppl_provision_id :
          ret.val.suppl_provision_id[i] \notin Whitespace

\* C6 (amended): the identifier is law_id + "_suppl_" + type (type "New" when
\* the attribute is missing), followed, when the amending-law number is present
\* and not empty, by "_" and the number with every space character (U+0020),
\* leading and trailing ones included, replaced by "_"; any other whitespace
\* character (a tab) is kept as it is.  Type "Amend" with number "X Y" gives
\* <law_id>_suppl_Amend_X_Y.
C6_SpacesReplaced ==
    Returned("_parse_suppl_provision") =>
       LET id == ret.val.suppl_provision_id
           prefix == SupplPrefix(arg.law_id, arg.elem)
           num == arg.elem.AmendLawNum
       IN  IF num = Absent \/ num = <<>>
           THEN id = prefix
           ELSE /\ Len(id) = Len(prefix) + 1 + Len(num)
                /\ SubSeq(id, 1, Len(prefix)) = prefix
                /\ id[Len(prefix) + 1] = "_"
                /\ \A i \in DOMAIN num :
                      id[Len(prefix) + 1 + i] = (IF num[i] = " " THEN "_" ELSE num[i])
                /\ (arg.elem.Type = <<"A", "m", "e", "n", "d">> /\ num = <<"X", " ", "Y">>)
                      => id = arg.law_id \o <<"_", "s", "u", "p", "p", "l", "_", "A", "m",
                                              "e", "n", "d", "_", "X", "_", "Y">>

C6_Witness ==
    /\ Returned("_parse_suppl_provision")
    /\ arg.elem.Type = <<"A", "m", "e", "n", "d">>
    /\ arg.elem.AmendLawNum = <<"X", " ", "Y">>
    /\ ret.val.suppl_provision_id =
          <<"L", "1", "_", "s", "u", "p", "p", "l", "_", "A", "m", "e", "n", "d", "_", "X", "_", "Y">>

(***************************************************************************)
(* C7                                                                      *)
(***************************************************************************)
\* the first calendar year of each era; any other name counts as the earliest
StartOf(era) ==
    IF era \in {"Taisho", "Showa", "Heisei", "Reiwa"}
    THEN [Taisho |-> 1912, Showa |-> 1926, Heisei |-> 1989, Reiwa |-> 2019][era]
    ELSE 1868

\* year/month/day is a date of the proleptic Gregorian calendar, years 1..9999
ValidDate(y, m, d) ==
    /\ y >= 1 /\ y <= 9999
    /\ \/ m \in {1, 3, 5, 7, 8, 10, 12} /\ d \in 1..31
       \/ m \in {4, 6, 9, 11} /\ d \in 1..30
       \/ m = 2 /\ d \in 1..28
       \/ m = 2 /\ d = 29 /\ (\E q \in 0..2500 : y = 4 * q)
                /\ ((\E q \in 0..100 : y = 100 * q) => (\E q \in 0..25 : y = 400 * q))

\* the numbers the metadata tokens of the explored documents stand for
TokenNumber(t, default) ==
    CASE t = Absent -> default
      [] t = <<"1">> -> 1
      [] t = <<"2">> -> 2
      [] t = <<"5">> -> 5
      [] t = <<"7">> -> 7
      [] t = <<"1", "3">> -> 13
      [] t = <<"2", "9">> -> 29
      [] t = <<"3", "0">> -> 30
      [] OTHER -> -1

\* C7: _convert_to_gregorian_date(e, y, m, d) returns (start(e) + y - 1, m, d),
\* start being 1868/1912/1926/1989/2019 and 1868 for any other era name; it
\* raises exactly when that is not a valid calendar date, and parse_law_file
\* then returns no Law.  Year 1 of an era is the era's start year.
C7_EraConversion ==
    /\ op = "_convert_to_gregorian_date" =>
          LET y == StartOf(arg.era) + arg.year - 1
          IN  /\ IF ValidDate(y, arg.month, arg.day)
                 THEN ret = Ok([year |-> y, month |-> arg.month, day |-> arg.day])
                 ELSE ~IsOk(ret)
              /\ (IsOk(ret) /\ arg.year = 1) => ret.val.year = StartOf(arg.era)
              /\ (arg.era = "Reiwa" /\ arg.year = 1 /\ arg.month = 5 /\ arg.day = 1)
                    => ret = Ok([year |-> 2019, month |-> 5, day |-> 1])
    /\ op = "parse_law_file" =>
          LET era == IF arg.doc.Era = "#absent" THEN "" ELSE arg.doc.Era
              year == TokenNumber(arg.doc.Year, 0)
              month == TokenNumber(arg.doc.PromulgateMonth, 1)
              day == TokenNumber(arg.doc.PromulgateDay, 1)
              y == StartOf(era) + year - 1
          IN  (year >= 0 /\ month >= 0 /\ day >= 0) =>
                 /\ ~ValidDate(y, month, day) => ~IsOk(ret)
                 /\ IsOk(ret) =>
                       ret.val.promulgate_date = [year |-> y, month |-> month, day |-> day]

C7_Witness ==
    /\ Returned("_convert_to_gregorian_date")
    /\ arg.era = "Reiwa" /\ arg.year = 1 /\ arg.month = 5 /\ arg.day = 1
    /\ ret.val = [year |-> 2019, month |-> 5, day |-> 1]

(***************************************************************************)
(* C8                                                                      *)
(***************************************************************************)
\* C8: every item element with a well-formed ordinal gives an Item whose
\* item_title is neither empty nor absent: the stringified ordinal when there
\* is no title element, and a non-empty title in every other case, a title
\* element without text included.
C8_ItemTitleNeverEmpty ==
    (op = "_parse_item"
     /\ \E n \in OrdinalRange : AttrGet(arg.elem.Num, <<"1">>) = PyStr(n)) =>
       /\ IsOk(ret)
       /\ ret.val.item_title # NoneVal
       /\ ret.val.item_title # <<>>
       /\ (arg.elem.ItemTitle = Absent /\ arg.elem.Num = <<"3">>)
             => ret.val.item_title = <<"3">>

(***************************************************************************)
(* C9                                                                      *)
(***************************************************************************)
\* the paragraph is in the paragraphs list of an article that has its article_id
HeldByArticle(paragraph, articles) ==
    \E k \in DOMAIN articles :
       /\ articles[k].article_id = paragraph.article_id
       /\ \E j \in DOMAIN articles[k].paragraphs : articles[k].paragraphs[j] = paragraph

\* C9 as stated: every Paragraph a parse operation produces, those placed
\* directly under a supplementary provision included, has the article_id of
\* an Article of the output that holds it.
C9_EveryParagraphInAnArticle ==
    Returned("_parse_suppl_provision") =>
       \A j \in DOMAIN ret.val.paragraphs :
          HeldByArticle(ret.val.paragraphs[j], ret.val.articles)

\* C9 (amended): every Paragraph in the paragraphs list of an Article, real or
\* synthesized, in the main body or in a supplementary provision, carries that
\* Article's article_id.  The paragraphs placed directly under a
\* supplementary provision are not given a synthesized article: they are
\* returned in the provision's own paragraphs list, in source order, and their
\* article_id is the suppl_provision_id, which is no Article's identifier.
C9_OwnerIsArticleOrProvision ==
    /\ Returned("_parse_articles_from_element") =>
          \A k \in DOMAIN ret.val : \A j \in DOMAIN ret.val[k].paragraphs :
             ret.val[k].paragraphs[j].article_id = ret.val[k].article_id
    /\ Returned("parse_articles") =>
          \A k \in DOMAIN ret.val : \A j \in DOMAIN ret.val[k].paragraphs :
             ret.val[k].paragraphs[j].article_id = ret.val[k].article_id
    /\ Returned("_parse_suppl_provision") =>
          /\ \A k \in DOMAIN ret.val.articles : \A j \in DOMAIN ret.val.articles[k].paragraphs :
                ret.val.articles[k].paragraphs[j].article_id = ret.val.articles[k].article_id
          /\ Len(ret.val.paragraphs) = Len(arg.elem.Paragraphs)
          /\ Len(ret.val.articles) = Len(arg.elem.Articles)
          /\ \A j \in DOMAIN ret.val.paragraphs :
                /\ ret.val.paragraphs[j].article_id = ret.val.suppl_provision_id
                /\ ~HeldByArticle(ret.val.paragraphs[j], ret.val.articles)
                /\ ret.val.paragraphs[j].content
                      = SentenceContent(arg.elem.Paragraphs[j].ParagraphSentence)

C9_Witness ==
    /\ Returned("_parse_suppl_provision")
    /\ Len(ret.val.paragraphs) = 2
    /\ Len(ret.val.articles) >= 1
    /\ Len(ret.val.articles[1].paragraphs) >= 1
    /\ ret.val.paragraphs[1].article_id = ret.val.suppl_provision_id

(***************************************************************************)
(* C10                                                                     *)
(***************************************************************************)
RECURSIVE TotalLength(_)
TotalLength(paragraphs) ==
    IF paragraphs = <<>> THEN 0
    ELSE Len(Head(paragraphs).content) + TotalLength(Tail(paragraphs))

\* C10 as stated: an Article's content is the concatenation of the contents of
\* all its paragraphs, so the text of every paragraph is in it.
C10_ContentHoldsEveryParagraph ==
    Returned("_parse_article") =>
       Len(ret.val.content) >= TotalLength(ret.val.paragraphs)

NonEmptyAt(paragraphs) == {j \in DOMAIN paragraphs : paragraphs[j].content # <<>>}
FirstNonEmpty(paragraphs) ==
    CHOOSE j \in NonEmptyAt(paragraphs) : \A i \in NonEmptyAt(paragraphs) : j <= i

\* C10 (amended): an Article's content is the content of the first of its
\* paragraphs, in source order, whose content is not empty, and the empty
\* string when there is none; the text of later paragraphs is not in it.  A
\* paragraph's content is the single-space join of the sentence fragments that
\* have text, the empty string when the container or the fragments are absent.
C10_ContentIsFirstNonEmptyParagraph ==
    /\ Returned("_parse_article") =>
          IF NonEmptyAt(ret.val.paragraphs) = {}
          THEN ret.val.content = <<>>
          ELSE ret.val.content
                  = ret.val.paragraphs[FirstNonEmpty(ret.val.paragraphs)].content
    /\ Returned("_parse_paragraph") =>
          LET c == arg.elem.ParagraphSentence
          IN  /\ (c = Absent \/ c = <<>>) => ret.val.content = <<>>
              /\ c = <<<<"A">>, <<"B">>>> => ret.val.content = <<"A", " ", "B">>
              /\ c = <<NoneVal, <<"B">>>> => ret.val.content = <<"B">>

C10_Witness ==
    /\ Returned("_parse_article")
    /\ Len(ret.val.paragraphs) = 2
    /\ ret.val.paragraphs[1].content = <<"A">>
    /\ ret.val.paragraphs[2].content = <<"B", " ", "A">>
    /\ ret.val.content = <<"A">>
====
